---- MODULE Spec2Model ----
(***************************************************************************)
(* The studio's batch state machine (generateStudio, handleCancelGeneration,*)
(* performUndo, saveStudioState) and the generation orchestrator            *)
(* (generateFittingImage, retryOperation, resolveSeed) of my-ai-studio.     *)
(*                                                                          *)
(* One step of the model is one run-to-completion task of the browser's     *)
(* event loop: a UI event handler, a timer callback, or the chain of       *)
(* microtasks that follows the settling of one asynchronous operation.      *)
(***************************************************************************)
EXTENDS Integers, Sequences, FiniteSets, TLC

\* ---------------------------------------------------------------- bounds
\* number of generateStudio invocations
MaxGen == 3
\* largest numberOfImages when several calls are followed
StudioImages == 1
\* largest numberOfImages when one call is followed
MaxImages == 2
\* largest value of the millisecond clock
MaxClock == 2
\* largest number of snapshots kept on the undo stack
MaxSnapshots == 3

\* ----------------------------------------------------- program constants
ConcurrencyCeiling == 2
DefaultRetries == 3
InitialDelay == 2000
HistoryLimit == 20
RandomRange == 2147483647

NoBatch == -1
NoController == 0

Gen == 1..MaxGen
Ids == 0..MaxClock

VARIABLES
    now,               \* the last value Date.now() returned
    generatedBatches,  \* studioState.generatedBatches
    error,             \* studioState.error
    cancelControllers, \* cancelControllers.current : id -> controller
    aborted,           \* controller.signal.aborted, per generateStudio call
    pc,                \* position of each generateStudio call
    local,             \* batchId, numberOfImages, baseSeed of each call
    sub,               \* the parallel sub-generations of each call
    result,            \* how generateFittingImage settled for each call
    studioHistory,     \* studioHistoryRef.current
    history,           \* the history list (setHistory)
    rt,                \* one retryOperation call followed in isolation
    svc,               \* one runEdit or runInpaint call and its service call
    pure,              \* one application of a function of the service
    currentView,       \* studioState.currentView
    views,             \* studioState.views
    fittingCall        \* what generateStudio last called generateFittingImage with

viewVars == <<currentView, views, fittingCall>>

vars == <<now, generatedBatches, error, cancelControllers, aborted, pc, local,
          sub, result, studioHistory, history, rt, svc, pure, viewVars>>

batchVars == <<generatedBatches, error, cancelControllers, aborted, pc,
               local, sub, result, studioHistory, history>>

studioVars == <<now, batchVars, viewVars>>

\* ------------------------------------------------------------ error values
\* An error of the provider: its status, its code, and which of the
\* substrings retryOperation looks for occur in the lower-cased message.
Markers == {"load failed", "fetch failed", "overloaded", "503"}

Err(status, code, msg) ==
    [status |-> status, code |-> code, msg |-> msg]

\* the errors the provider is made to fail with: overloads told by status,
\* by code and by message, network failures alone and together with the
\* marks of an overload, and an error that is neither
Errors ==
    {Err(503, 0, {}), Err(0, 503, {}), Err(0, 0, {"overloaded"}), Err(0, 0, {"503"}),
     Err(0, 0, {"load failed"}), Err(503, 0, {"fetch failed", "503"}),
     Err(0, 0, {"load failed", "overloaded"}), Err(500, 0, {})}

\* new Error("네트워크 전송 실패: ...")
NetworkError == [status |-> 0, code |-> 0, msg |-> {"network transfer failed"}]

NoError == [status |-> 0, code |-> 0, msg |-> {"none"}]

CancelledMsg == "Cancelled"
NoImageMsg == "no image data in response"
ConfigMsg == "API key not set"
NullMsg == "null"

\* ------------------------------------------------------------ retryOperation
IsNetworkFailure(e) ==
    "load failed" \in e.msg \/ "fetch failed" \in e.msg

IsRetryable(e) ==
    e.status = 503 \/ e.code = 503 \/ "overloaded" \in e.msg \/ "503" \in e.msg

\* the catch block testing for an overload before the network failure
RetryCatchOverloadFirst(e, retries) ==
    IF IsRetryable(e) /\ retries > 0
    THEN [kind |-> "retry", err |-> e]
    ELSE IF IsNetworkFailure(e)
         THEN [kind |-> "throw", err |-> NetworkError]
         ELSE [kind |-> "throw", err |-> e]

\* The catch block of retryOperation: what it does with error e when
\* `retries` retries are left.
RetryCatch(e, retries) ==
    IF IsNetworkFailure(e)
    THEN [kind |-> "throw", err |-> NetworkError]
    ELSE IF IsRetryable(e) /\ retries > 0
         THEN [kind |-> "retry", err |-> e]
         ELSE [kind |-> "throw", err |-> e]

\* the recursive call made with the delay unchanged
NextDelayFlat(delay) ==
    delay

\* delay * 2 of the recursive call
NextDelay(delay) ==
    delay * 2

\* ---------------------------------------------------------------- getGenAI
\* a key source holds nothing, blanks only, or a key
KeyValues == {"", " ", "key"}

\* String.prototype.trim on those values
Trim(k) ==
    IF k = " " THEN "" ELSE k

\* the stored key and the environment's key, for every call the same
KeySources == KeyValues \X KeyValues

\* a key in storage, or none anywhere
StudioKeys == {<<"key", "">>, <<"", "">>}

\* the key getGenAI settles on before its strict check
ApiKey(keys) ==
    LET storedKey == keys[1]
        apiKey == IF storedKey # "" /\ Trim(storedKey) # "" THEN Trim(storedKey) ELSE ""
    IN  IF apiKey = "" THEN keys[2] ELSE apiKey

\* the strict check testing only for the empty string
getGenAIUntrimmed(keys) ==
    IF ApiKey(keys) = ""
    THEN [ok |-> FALSE, msg |-> ConfigMsg]
    ELSE [ok |-> TRUE, msg |-> NullMsg]

\* getGenAI: the client, or the configuration error it throws
getGenAI(keys) ==
    IF ApiKey(keys) = "" \/ Trim(ApiKey(keys)) = ""
    THEN [ok |-> FALSE, msg |-> ConfigMsg]
    ELSE [ok |-> TRUE, msg |-> NullMsg]

\* ----------------------------------------------------------------- seeds
\* Math.floor(Math.random() * 2147483647), with Math.random() = u / RandomDen
RandomDen == 4

RandomFloor(u) ==
    u * (RandomRange \div RandomDen) + (u * (RandomRange % RandomDen)) \div RandomDen

\* resolveSeed keeping every seed that is defined
resolveSeedKeepDefined(seedOpt, u) ==
    IF seedOpt # <<>> THEN seedOpt[1] ELSE RandomFloor(u)

\* the seed argument is <<>> (undefined) or <<s>>
resolveSeed(seedOpt, u) ==
    IF seedOpt # <<>> /\ seedOpt[1] # -1 THEN seedOpt[1] ELSE RandomFloor(u)

\* the seed settings and random draws the studio runs are explored with
SeedInputs == {<<>>, <<42>>}

StudioSeeds == {<<>>}

RandomDraws == {RandomDen - 1}

\* ------------------------------------------------------------ batch list
\* Array(n).fill("placeholder")
Placeholder ==
    [kind |-> "placeholder", of |-> 0]

NewBatch(id, n) ==
    [id |-> id, images |-> [k \in 1..n |-> Placeholder], status |-> "loading",
     errorMsg |-> NullMsg]

LoadingCount(bs) ==
    Cardinality({k \in 1..Len(bs) : bs[k].status = "loading"})

\* the admission check letting a call through at the ceiling
AdmitAtCeiling(bs) ==
    ~(LoadingCount(bs) > ConcurrencyCeiling)

\* the admission check of generateStudio: TRUE when the call goes on
Admit(bs) ==
    ~(LoadingCount(bs) >= ConcurrencyCeiling)

RemoveBatch(bs, id) ==
    SelectSeq(bs, LAMBDA b : b.id # id)

CompleteBatch(bs, id, urls) ==
    [k \in 1..Len(bs) |->
        IF bs[k].id = id
        THEN [bs[k] EXCEPT !.images = urls, !.status = "completed"]
        ELSE bs[k]]

FailBatch(bs, id, msg) ==
    [k \in 1..Len(bs) |->
        IF bs[k].id = id
        THEN [bs[k] EXCEPT !.status = "error", !.errorMsg = msg]
        ELSE bs[k]]

\* the entry left in the registry
DeleteControllerKept(cc, id) ==
    cc

\* delete cancelControllers.current[batchId]
DeleteController(cc, id) ==
    [cc EXCEPT ![id] = NoController]

\* the test of generateStudio's catch block: errors it swallows silently
IsSilent(msg) ==
    msg = CancelledMsg

\* --------------------------------------------------- generateFittingImage
NoResult ==
    [kind |-> "none", imageUrls |-> <<>>, seeds |-> <<>>]

Rejection(msg) ==
    [kind |-> msg, imageUrls |-> <<>>, seeds |-> <<>>]

\* a callback of generationPromises that returned null, the rank-th to
\* settle; err is the error its catch block caught, if any
NullSub(seed, rank, err) ==
    [st |-> "null", retries |-> 0, delay |-> 0, seed |-> seed, img |-> Placeholder,
     rank |-> rank, err |-> err]

\* a callback of generationPromises that returned { img, seed }
ImageSub(seed, img, rank) ==
    [st |-> "image", retries |-> 0, delay |-> 0, seed |-> seed, img |-> img,
     rank |-> rank, err |-> NoError]

SettledCount(subs) ==
    Cardinality({i \in 1..Len(subs) : subs[i].st \in {"image", "null"}})

\* the callback using the base seed for every index
DispatchOneBaseSeed(baseSeed, index, isAborted) ==
    IF isAborted
    THEN NullSub(baseSeed, index + 1, NoError)
    ELSE [st |-> "inflight", retries |-> DefaultRetries, delay |-> InitialDelay,
          seed |-> baseSeed, img |-> Placeholder, rank |-> 0, err |-> NoError]

\* one callback of generationPromises up to its first await
DispatchOne(baseSeed, index, isAborted) ==
    IF isAborted
    THEN NullSub(baseSeed + index, index + 1, NoError)
    ELSE [st |-> "inflight", retries |-> DefaultRetries, delay |-> InitialDelay,
          seed |-> baseSeed + index, img |-> Placeholder, rank |-> 0,
          err |-> NoError]

DispatchAll(n, baseSeed, isAborted) ==
    [i \in 1..n |-> DispatchOne(baseSeed, i - 1, isAborted)]

IsSettled(s) ==
    s.st \in {"image", "null"}

AllSettled(subs) ==
    \A i \in 1..Len(subs) : IsSettled(subs[i])

\* what the provider answers: a response with or without an image part, or an error
\* the image the provider generates for a call made with `seed`
ProviderImage(seed) ==
    [kind |-> "image", of |-> seed]

\* the errors the studio's provider calls are made to fail with: an
\* overload, a network failure that also bears the marks of an overload, and
\* an error that is neither
ProviderErrors ==
    {Err(503, 0, {}), Err(503, 0, {"fetch failed", "503"}), Err(500, 0, {})}

\* the same without the overload
HardErrors ==
    {Err(503, 0, {"fetch failed", "503"}), Err(500, 0, {})}

\* what the provider answers to a call made with `seed`: a response with or
\* without an image part, or one of the errors E
Replies(seed, E) ==
    {[kind |-> "response", hasImage |-> TRUE, img |-> ProviderImage(seed), err |-> NoError],
     [kind |-> "response", hasImage |-> FALSE, img |-> Placeholder, err |-> NoError]}
    \cup {[kind |-> "error", hasImage |-> FALSE, img |-> Placeholder, err |-> e] : e \in E}

\* one callback of generationPromises from the settling of generateContent on
SubAfterReply(s, reply, isAborted, rank) ==
    IF reply.kind = "response"
    THEN IF isAborted
         THEN NullSub(s.seed, rank, NoError)
         ELSE IF reply.hasImage
              THEN ImageSub(s.seed, reply.img, rank)
              ELSE NullSub(s.seed, rank, NoError)
    ELSE IF RetryCatch(reply.err, s.retries).kind = "retry"
         THEN [s EXCEPT !.st = "backoff"]
         ELSE NullSub(s.seed, rank, RetryCatch(reply.err, s.retries).err)

\* the retry after the backoff delay: retryOperation(operation, retries - 1, delay * 2)
SubRetry(s) ==
    [s EXCEPT !.st = "inflight", !.retries = s.retries - 1,
              !.delay = NextDelay(s.delay)]

\* the results pushed in the order the callbacks settled
RECURSIVE CollectAsSettled(_, _)
CollectAsSettled(subs, k) ==
    IF k > Len(subs)
    THEN [imageUrls |-> <<>>, seeds |-> <<>>]
    ELSE LET rest == CollectAsSettled(subs, k + 1)
             i == CHOOSE j \in 1..Len(subs) : subs[j].rank = k
         IN  IF subs[i].st = "image"
             THEN [imageUrls |-> <<subs[i].img>> \o rest.imageUrls,
                   seeds |-> <<subs[i].seed>> \o rest.seeds]
             ELSE rest

\* results.forEach(res => { if (res) { push img; push seed } })
RECURSIVE Collect(_, _)
Collect(subs, k) ==
    IF k > Len(subs)
    THEN [imageUrls |-> <<>>, seeds |-> <<>>]
    ELSE LET rest == Collect(subs, k + 1)
         IN  IF subs[k].st = "image"
             THEN [imageUrls |-> <<subs[k].img>> \o rest.imageUrls,
                   seeds |-> <<subs[k].seed>> \o rest.seeds]
             ELSE rest

\* the aggregation without the last signal check
FittingResultUnchecked(subs, isAborted) ==
    LET c == Collect(subs, 1)
    IN  IF Len(c.imageUrls) = 0
        THEN Rejection(NoImageMsg)
        ELSE [kind |-> "ok", imageUrls |-> c.imageUrls, seeds |-> c.seeds]

\* the aggregation without the test for an empty result
FittingResultMayBeEmpty(subs, isAborted) ==
    IF isAborted
    THEN Rejection(CancelledMsg)
    ELSE LET c == Collect(subs, 1)
         IN  [kind |-> "ok", imageUrls |-> c.imageUrls, seeds |-> c.seeds]

\* generateFittingImage after Promise.all
FittingResult(subs, isAborted) ==
    IF isAborted
    THEN Rejection(CancelledMsg)
    ELSE LET c == Collect(subs, 1)
         IN  IF Len(c.imageUrls) = 0
             THEN Rejection(NoImageMsg)
             ELSE [kind |-> "ok", imageUrls |-> c.imageUrls, seeds |-> c.seeds]

\* ------------------------------------------------------------- history
\* the items carrying their index in place of their seed
NewHistoryItemsIndexed(id, res) ==
    [k \in 1..Len(res.imageUrls) |->
        [id |-> <<id, k - 1>>, url |-> res.imageUrls[k], seed |-> k - 1]]

\* result.imageUrls.map((url, index) => ({ id: batchId + "_" + index, ... }))
NewHistoryItems(id, res) ==
    [k \in 1..Len(res.imageUrls) |->
        [id |-> <<id, k - 1>>, url |-> res.imageUrls[k], seed |-> res.seeds[k]]]

\* ------------------------------------------------------------- undo stack
Snapshot(bs, err) ==
    [generatedBatches |-> bs, error |-> err]

\* ------------------------------------------------------------ image buffers
\* An image is the row of its pixels, a pixel the four channels <<r, g, b, a>>
\* of ImageData.  BufLen is the number of pixels of the images explored.
BufLen == 2

\* what a canvas keeps of a pixel drawn or put on it while it is cleared:
\* its storage is premultiplied, so a fully transparent pixel loses its colour
CanvasPixel(px) ==
    IF px[4] = 0 THEN <<0, 0, 0, 0>> ELSE px

\* drawImage on a cleared canvas followed by getImageData, and putImageData
\* followed by toDataURL('image/png')
CanvasData(img) ==
    [i \in 1..Len(img) |-> CanvasPixel(img[i])]

\* the pixels the photos are made of: two opaque colours and a transparent one
ImagePixels == {<<10, 20, 30, 255>>, <<200, 210, 220, 255>>, <<0, 0, 0, 0>>}

\* the pixels the masks are made of: unpainted, painted, the anti-aliased rim
\* of a brush stroke on either side of the thresholds, and a pixel painted
\* in yellow
MaskPixels == {<<0, 0, 0, 255>>, <<255, 255, 255, 255>>, <<128, 128, 128, 255>>,
               <<64, 64, 64, 255>>, <<255, 255, 0, 255>>}

Buffers(P) ==
    [1..BufLen -> P]

BlackMask == [i \in 1..BufLen |-> <<0, 0, 0, 255>>]

WhiteMask == [i \in 1..BufLen |-> <<255, 255, 255, 255>>]

\* the loop of binarizeMask with the two values exchanged
BinarizePixelInverted(px) ==
    LET val == IF (px[1] + px[2] + px[3]) > 3 * 64 THEN 0 ELSE 255
    IN  <<val, val, val, 255>>

\* the loop body of binarizeMask: brightness = (r + g + b) / 3 > 64
BinarizePixel(px) ==
    LET val == IF (px[1] + px[2] + px[3]) > 3 * 64 THEN 255 ELSE 0
    IN  <<val, val, val, 255>>

\* binarizeMask; hasCtx tells whether getContext('2d') gave a context
binarizeMask(maskBase64, hasCtx) ==
    IF ~hasCtx
    THEN maskBase64
    ELSE LET data == CanvasData(maskBase64)
         IN  CanvasData([i \in 1..Len(data) |-> BinarizePixel(data[i])])

\* Math.round(o * (1 - m) + c * m) with m = maskRed / 255
Blend(o, c, maskRed) ==
    (2 * (o * (255 - maskRed) + c * maskRed) + 255) \div 510

\* the blending loop shared by compositeMaskResult and pasteCropIntoOriginal
BlendPixel(o, c, maskPx) ==
    <<Blend(o[1], c[1], maskPx[1]), Blend(o[2], c[2], maskPx[1]),
      Blend(o[3], c[3], maskPx[1]), 255>>

\* compositeMaskResult for images of one size
compositeMaskResult(originalBase64, resultBase64, maskBase64, hasCtx) ==
    IF ~hasCtx
    THEN resultBase64
    ELSE LET origData == CanvasData(originalBase64)
             resData == CanvasData(resultBase64)
             maskData == CanvasData(maskBase64)
         IN  CanvasData([i \in 1..Len(origData) |->
                            BlendPixel(origData[i], resData[i], maskData[i])])

\* ------------------------------------------------------------- inpainting
NoSelectionMsg == "no mask region"
EditFailedMsg == "image editing failed"
InpaintFailedMsg == "inpainting returned no image"
NetworkMsg == "network transfer failed"
ProviderMsg == "provider error"

\* error.message of what retryOperation throws
ErrorMessage(e) ==
    IF e = NetworkError THEN NetworkMsg ELSE ProviderMsg

\* the padding generateInpainting crops with
Padding == 60

Min(a, b) == IF a < b THEN a ELSE b

Max(a, b) == IF a > b THEN a ELSE b

\* the columns (from 0) of the mask that count as painted
WhiteColumnsFromHalf(mdata) ==
    {i - 1 : i \in {j \in 1..Len(mdata) : mdata[j][1] >= 128}}

\* mdata[(y * W + x) * 4] > 128
WhiteColumns(mdata) ==
    {i - 1 : i \in {j \in 1..Len(mdata) : mdata[j][1] > 128}}

NoCrop == [found |-> FALSE, x |-> 0, cropW |-> 0]

\* cropMaskedRegion for a mask of the size of the image: the box around the
\* painted columns, padded and clamped, or null
cropMaskedRegion(imageBase64, maskBase64, padding, hasCtx) ==
    LET W == Len(imageBase64)
        white == WhiteColumns(CanvasData(maskBase64))
    IN  IF ~hasCtx \/ white = {}
        THEN NoCrop
        ELSE LET minX == CHOOSE c \in white : \A d \in white : c <= d
                 maxX == CHOOSE c \in white : \A d \in white : c >= d
                 x == Max(0, minX - padding)
                 x2 == Min(W, maxX + padding)
             IN  [found |-> TRUE, x |-> x, cropW |-> x2 - x]

\* the pixel the provider paints everywhere in the image it returns
EditedPixel == <<90, 90, 90, 255>>

\* the image the provider returns for a request of w pixels
ProviderEdit(w) ==
    [i \in 1..w |-> EditedPixel]

\* drawImage of pixel c over pixel o (source-over, alpha 0 or 255)
DrawOver(o, c) ==
    IF c[4] = 0 THEN o ELSE c

\* pasteCropIntoOriginal; cropLoads tells whether the edited crop decodes
pasteCropIntoOriginal(originalBase64, editedCropBase64, maskBase64, x, cropW, hasCtx, cropLoads) ==
    IF ~cropLoads
    THEN originalBase64
    ELSE IF ~hasCtx
         THEN editedCropBase64
         ELSE LET origData == CanvasData(originalBase64)
                  composited == [i \in 1..Len(origData) |->
                                    IF i - 1 >= x /\ i - 1 < x + cropW
                                    THEN DrawOver(origData[i], editedCropBase64[i - x])
                                    ELSE origData[i]]
                  maskData == CanvasData(maskBase64)
              IN  CanvasData([i \in 1..Len(origData) |->
                                 BlendPixel(origData[i], composited[i], maskData[i])])

SvcIdle ==
    [fn |-> "none", pc |-> "idle", keys |-> <<"", "">>, seed |-> 0,
     original |-> <<>>, mask |-> <<>>, x |-> 0, cropW |-> 0, calls |-> 0,
     retries |-> DefaultRetries, delay |-> InitialDelay, err |-> NullMsg,
     editedCrop |-> <<>>, blendMask |-> <<>>, imageUrl |-> <<>>]

\* the service call rejects with msg: the catch and finally blocks of
\* runEdit and runInpaint
SvcFailed(sv, msg) ==
    [sv EXCEPT !.pc = "failed", !.err = msg, !.retries = DefaultRetries,
               !.delay = InitialDelay]

\* runEdit up to the first await of generateEditedImage (one call of runEdit
\* or runInpaint is followed)
RunEdit(keys, seedOpt, u, image) ==
    /\ svc.pc = "idle"
    /\ LET ai == getGenAI(keys)
           sv == [svc EXCEPT !.fn = "generateEditedImage", !.keys = keys,
                             !.original = image]
       IN  svc' = IF ~ai.ok
                  THEN SvcFailed(sv, ai.msg)
                  ELSE [sv EXCEPT !.pc = "preparing", !.seed = resolveSeed(seedOpt, u)]
    /\ UNCHANGED <<studioVars, rt, pure>>

\* runInpaint up to the first await of generateInpainting
RunInpaint(keys, seedOpt, u, image, mask) ==
    /\ svc.pc = "idle"
    /\ LET ai == getGenAI(keys)
           sv == [svc EXCEPT !.fn = "generateInpainting", !.keys = keys,
                             !.original = image, !.mask = mask]
       IN  svc' = IF ~ai.ok
                  THEN SvcFailed(sv, ai.msg)
                  ELSE [sv EXCEPT !.pc = "cropping", !.seed = resolveSeed(seedOpt, u)]
    /\ UNCHANGED <<studioVars, rt, pure>>

\* generateEditedImage after detectAspectRatio, applyGeometricTransforms and
\* optimizeImage: the provider call is made
PrepareDone ==
    /\ svc.fn = "generateEditedImage"
    /\ svc.pc = "preparing"
    /\ svc' = [svc EXCEPT !.pc = "calling", !.calls = 1]
    /\ UNCHANGED <<studioVars, rt, pure>>

\* generateInpainting after cropMaskedRegion, and for a crop that was found
\* after detectAspectRatio and optimizeImage: the provider call is made
CropDone(hasCtx) ==
    /\ svc.fn = "generateInpainting"
    /\ svc.pc = "cropping"
    /\ LET cropData == cropMaskedRegion(svc.original, svc.mask, Padding, hasCtx)
       IN  svc' = IF ~cropData.found
                  THEN SvcFailed(svc, NoSelectionMsg)
                  ELSE [svc EXCEPT !.pc = "calling", !.calls = 1,
                                   !.x = cropData.x, !.cropW = cropData.cropW]
    /\ UNCHANGED <<studioVars, rt, pure>>

\* the history item runEdit and runInpaint add, with id Date.now().toString()
ServiceHistoryItem(t, url, seed) ==
    [id |-> <<t>>, url |-> url, seed |-> seed]

\* the provider call settles with `reply`; t is what Date.now() returns when
\* runEdit builds its history item
ServiceReply(reply, t) ==
    /\ svc.pc = "calling"
    /\ IF reply.kind = "response"
       THEN IF ~reply.hasImage
            THEN /\ svc' = SvcFailed(svc, IF svc.fn = "generateEditedImage"
                                          THEN EditFailedMsg ELSE InpaintFailedMsg)
                 /\ UNCHANGED <<now, history>>
            ELSE IF svc.fn = "generateEditedImage"
                 THEN LET url == ProviderEdit(Len(svc.original))
                      IN  /\ svc' = [svc EXCEPT !.pc = "done", !.imageUrl = url,
                                                !.retries = DefaultRetries,
                                                !.delay = InitialDelay]
                          /\ history' = <<ServiceHistoryItem(t, url, svc.seed)>> \o history
                          /\ now' = t
                 ELSE /\ svc' = [svc EXCEPT !.pc = "pasting",
                                            !.editedCrop = ProviderEdit(svc.cropW),
                                            !.blendMask = svc.mask,
                                            !.retries = DefaultRetries,
                                            !.delay = InitialDelay]
                      /\ UNCHANGED <<now, history>>
       ELSE LET rc == RetryCatch(reply.err, svc.retries)
            IN  /\ svc' = IF rc.kind = "retry"
                          THEN [svc EXCEPT !.pc = "backoff"]
                          ELSE SvcFailed(svc, ErrorMessage(rc.err))
                /\ UNCHANGED <<now, history>>
    /\ UNCHANGED <<generatedBatches, error, cancelControllers, aborted, pc, local,
                   sub, result, studioHistory, rt, pure, viewVars>>

\* the backoff timer fires: retryOperation calls itself
ServiceBackoffElapsed ==
    /\ svc.pc = "backoff"
    /\ svc' = [svc EXCEPT !.pc = "calling", !.calls = @ + 1, !.retries = @ - 1,
                          !.delay = NextDelay(@)]
    /\ UNCHANGED <<studioVars, rt, pure>>

\* pasteCropIntoOriginal resolves; generateInpainting returns and runInpaint
\* stores the image and its history item
PasteDone(hasCtx, cropLoads, t) ==
    /\ svc.pc = "pasting"
    /\ LET finalImage == pasteCropIntoOriginal(svc.original, svc.editedCrop,
                                               svc.blendMask, svc.x, svc.cropW,
                                               hasCtx, cropLoads)
       IN  /\ svc' = [svc EXCEPT !.pc = "done", !.imageUrl = finalImage]
           /\ history' = <<ServiceHistoryItem(t, finalImage, svc.seed)>> \o history
    /\ now' = t
    /\ UNCHANGED <<generatedBatches, error, cancelControllers, aborted, pc, local,
                   sub, result, studioHistory, rt, pure, viewVars>>

\* the steps of one runEdit or runInpaint call on an image of I with a mask
\* of M, the key sources holding one of K, the provider failing with E
ServiceNext(I, M, K, E) ==
    \/ \E keys \in K, seedOpt \in StudioSeeds, u \in RandomDraws, image \in I :
          RunEdit(keys, seedOpt, u, image)
    \/ \E keys \in K, seedOpt \in StudioSeeds, u \in RandomDraws, image \in I,
          mask \in M : RunInpaint(keys, seedOpt, u, image, mask)
    \/ PrepareDone
    \/ \E hasCtx \in BOOLEAN : CropDone(hasCtx)
    \/ \E reply \in Replies(svc.seed, E), t \in now..MaxClock : ServiceReply(reply, t)
    \/ \E hasCtx \in BOOLEAN, cropLoads \in BOOLEAN, t \in now..MaxClock :
          PasteDone(hasCtx, cropLoads, t)

\* ------------------------------------------------------ JavaScript values
Undefined == [kind |-> "undefined"]

Null == [kind |-> "null"]

Str(s) == [kind |-> "string", str |-> s]

\* an object: its own properties, in the order of their insertion
Obj(entries) == [kind |-> "object", entries |-> entries]

Has(o, k) ==
    o.kind = "object" /\ \E i \in 1..Len(o.entries) : o.entries[i].key = k

\* o[k], undefined when o has no such property or is no object
Get(o, k) ==
    IF Has(o, k)
    THEN o.entries[CHOOSE i \in 1..Len(o.entries) : o.entries[i].key = k].val
    ELSE Undefined

RECURSIVE PutEntries(_, _, _)
PutEntries(entries, k, v) ==
    IF entries = <<>>
    THEN <<>>
    ELSE <<IF Head(entries).key = k THEN [key |-> k, val |-> v] ELSE Head(entries)>>
         \o PutEntries(Tail(entries), k, v)

\* { ...o, [k]: v }
Put(o, k, v) ==
    IF Has(o, k)
    THEN Obj(PutEntries(o.entries, k, v))
    ELSE Obj(Append(o.entries, [key |-> k, val |-> v]))

\* delete o[k]
Delete(o, k) == Obj(SelectSeq(o.entries, LAMBDA e : e.key # k))

Truthy(v) ==
    v.kind = "object" \/ (v.kind = "string" /\ v.str # "")

\* a || b
Or(a, b) == IF Truthy(a) THEN a ELSE b

\* ------------------------------------- generateFittingImage: the request
ModelCategories == {"MODEL", "MODEL_AURORA", "MODEL_ORION"}

configCategories ==
    {"BACKGROUND", "POSE", "FIT", "GENDER", "MODEL", "MODEL_AURORA", "MODEL_ORION"}

\* an image part: the data of optimizeImage(url)
ImagePart(url) == [inlineData |-> [optimized |-> url]]

\* a line of inputMappingDescription: the n of its "IMAGE n" (0 when it has
\* none), what it says the image is, and the image it was written for
MappingLine(n, role, url) == [image |-> n, role |-> role, of |-> url]

\* 1. Model Image
PushModel(modelBase64, refImages) ==
    IF Truthy(modelBase64)
    THEN [parts |-> <<ImagePart(modelBase64.str)>>,
          inputMappingDescription |->
              <<MappingLine(1, "MASTER IDENTITY SOURCE (FACE)", modelBase64.str)>>,
          currentIndex |-> 2,
          clothingIndices |-> <<>>]
    ELSE [parts |-> <<>>,
          inputMappingDescription |->
              <<MappingLine(0, IF Len(refImages) > 0
                               THEN "NO DEDICATED MODEL SLOT USED"
                               ELSE "NO TARGET MODEL PROVIDED", "")>>,
          currentIndex |-> 1,
          clothingIndices |-> <<>>]

\* the entries of selectedItems that are kept as clothing
IsClothingEntry(e) ==
    /\ Truthy(e.val)
    /\ Truthy(Get(e.val, "imageUrl"))
    /\ e.key \notin configCategories

\* 2. Clothing Items
RECURSIVE PushClothing(_, _)
PushClothing(b, entries) ==
    IF entries = <<>>
    THEN b
    ELSE LET url == Get(Head(entries).val, "imageUrl").str
         IN  PushClothing(
                 [parts |-> Append(b.parts, ImagePart(url)),
                  inputMappingDescription |->
                      Append(b.inputMappingDescription,
                             MappingLine(b.currentIndex, "CLOTHING ITEM", url)),
                  currentIndex |-> b.currentIndex + 1,
                  clothingIndices |-> Append(b.clothingIndices, b.currentIndex)],
                 Tail(entries))

\* 3. Reference Images
RECURSIVE PushReferences(_, _, _)
PushReferences(b, refImages, modelBase64) ==
    IF refImages = <<>>
    THEN b
    ELSE LET ref == Head(refImages)
         IN  PushReferences(
                 IF Truthy(ref) /\ ref.kind = "string"
                 THEN [b EXCEPT
                         !.parts = Append(@, ImagePart(ref.str)),
                         !.inputMappingDescription =
                             Append(@, MappingLine(b.currentIndex,
                                                   IF Truthy(modelBase64)
                                                   THEN "STYLE/POSE REFERENCE ONLY"
                                                   ELSE "REFERENCE", ref.str)),
                         !.currentIndex = @ + 1]
                 ELSE b,
                 Tail(refImages), modelBase64)

\* the prompt: the input mapping, the "Image 1" whose face the rules tell to
\* extend and match, and the "Images ..." the rules tell to dress the body in
Prompt(b) ==
    [text |-> [inputMapping |-> b.inputMappingDescription,
               faceImage |-> 1,
               clothingImages |-> b.clothingIndices]]

\* the parts of the request generateFittingImage sends
FittingParts(modelBase64, selectedItems, refImages) ==
    LET clothingEntries == SelectSeq(selectedItems.entries, IsClothingEntry)
        b == PushReferences(
                 PushClothing(PushModel(modelBase64, refImages), clothingEntries),
                 refImages, modelBase64)
    IN  Append(b.parts, Prompt(b))

\* ------------------------------------------------------------ the two views
\* views[v] at the start
EmptyView ==
    Obj(<<[key |-> "modelImage", val |-> Null], [key |-> "items", val |-> Obj(<<>>)]>>)

Views == {"FRONT", "BACK"}

OtherView(v) == IF v = "FRONT" THEN "BACK" ELSE "FRONT"

\* the arguments generateStudio calls generateFittingImage with
FittingArguments(cv, vs) ==
    LET items == Get(vs[cv], "items")
    IN  [called |-> TRUE,
         modelImg |-> Or(Or(Or(Get(Get(items, "MODEL_AURORA"), "imageUrl"),
                               Get(Get(items, "MODEL_ORION"), "imageUrl")),
                            Get(Get(items, "MODEL"), "imageUrl")),
                         Null),
         selectedItems |-> items,
         view |-> cv]

\* how many objects deep the property items of o goes
RECURSIVE Nesting(_)
Nesting(o) ==
    IF Has(o, "items") THEN 1 + Nesting(Get(o, "items")) ELSE 0

\* ------------------------------------------------------------ optimizeImage
Abs(a) == IF a < 0 THEN -a ELSE a

\* Math.round(num / den) for num >= 0 and den > 0
RoundDiv(num, den) ==
    (2 * num + den) \div (2 * den)

\* the width and height of the canvas optimizeImage draws on and encodes, or
\* those of the image it gives back untouched for want of a context
optimizeImage(width, height, maxWidth, hasCtx) ==
    LET resized ==
            IF width > maxWidth \/ height > maxWidth
            THEN IF width > height
                 THEN <<maxWidth, RoundDiv(height * maxWidth, width)>>
                 ELSE <<RoundDiv(width * maxWidth, height), maxWidth>>
            ELSE <<width, height>>
    IN  IF hasCtx THEN resized ELSE <<width, height>>

\* -------------------------------------------------------- detectAspectRatio
\* ratios: value and r, r as numerator and denominator
Ratios ==
    <<[value |-> "1:1", r |-> <<1, 1>>], [value |-> "4:3", r |-> <<4, 3>>],
      [value |-> "16:9", r |-> <<16, 9>>], [value |-> "21:9", r |-> <<21, 9>>],
      [value |-> "5:4", r |-> <<5, 4>>], [value |-> "3:2", r |-> <<3, 2>>],
      [value |-> "2:3", r |-> <<2, 3>>], [value |-> "9:16", r |-> <<9, 16>>],
      [value |-> "3:4", r |-> <<3, 4>>], [value |-> "4:5", r |-> <<4, 5>>]>>

\* The numbers of the code are IEEE 754 doubles: p / q stands for the
\* double nearest to it. A double is kept as the fraction it rounds and the
\* error of the rounding, so that no number wider than the fractions'
\* products is ever computed.

\* the significand of a double has 53 bits
SignificandBits == 53

\* the k with 2^k <= p / q < 2^(k + 1)
RECURSIVE Exponent(_, _)
Exponent(p, q) ==
    IF p < q THEN Exponent(2 * p, q) - 1
    ELSE IF p >= 2 * q THEN Exponent(p, 2 * q) + 1
    ELSE 0

\* 2^n modulo m
RECURSIVE PowMod(_, _)
PowMod(n, m) ==
    IF n = 0
    THEN 1 % m
    ELSE LET half == PowMod(n \div 2, m)
         IN  (half * half * (IF n % 2 = 1 THEN 2 ELSE 1)) % m

RECURSIVE Pow2(_)
Pow2(n) ==
    IF n = 0 THEN 1 ELSE 2 * Pow2(n - 1)

\* double(p / q) - p / q, times q 2^SignificandBits, for p / q >= 1/2:
\* round to nearest, ties to even. With s = SignificandBits - 1 - k the
\* double is the integer nearest to p 2^s / q, over 2^s
RoundingError(p, q) ==
    LET k == Exponent(p, q)
        s == SignificandBits - 1 - k
        n == ((p % (2 * q)) * PowMod(s, 2 * q)) % (2 * q)
        rem == n % q
        odd == (n - rem) \div q = 1
        up == 2 * rem > q \/ (2 * rem = q /\ odd)
    IN  (IF up THEN q - rem ELSE -rem) * Pow2(k + 1)

\* Math.abs(ratio - ratios[a].r) < Math.abs(ratio - ratios[b].r), for
\* ratio = w / h. The differences between the fractions decide, being far
\* wider apart than the roundings when they differ (for h below 2^20); two
\* entries at the same distance of w / h lie on either side of it, within a
\* factor of two of it, the subtractions are then exact, and the rounding
\* errors of the three divisions decide; an entry is never closer than itself
DiffLess(w, h, a, b) ==
    LET ra == Ratios[a].r
        rb == Ratios[b].r
        da == w * ra[2] - ra[1] * h
        db == w * rb[2] - rb[1] * h
        la == Abs(da) * rb[2]
        lb == Abs(db) * ra[2]
        em == RoundingError(w, h)
        ea == RoundingError(ra[1], ra[2])
        eb == RoundingError(rb[1], rb[2])
        sa == IF da < 0 THEN -1 ELSE IF da > 0 THEN 1 ELSE 0
        sb == IF db < 0 THEN -1 ELSE IF db > 0 THEN 1 ELSE 0
    IN  IF la # lb
        THEN la < lb
        ELSE /\ sa # sb
             /\ sa * (em * ra[2] * rb[2] - ea * h * rb[2])
                   < sb * (em * ra[2] * rb[2] - eb * h * ra[2])

\* the loop over ratios from entry i on, closest being entry c
RECURSIVE Closest(_, _, _, _)
Closest(w, h, i, c) ==
    IF i > Len(Ratios)
    THEN c
    ELSE Closest(w, h, i + 1, IF DiffLess(w, h, i, c) THEN i ELSE c)

\* detectAspectRatio of an image of w by h: the index of closest in ratios
detectAspectRatio(w, h) ==
    IF w = 0 \/ h = 0 THEN 1 ELSE Closest(w, h, 1, 1)

\* ------------------------------------------------- geometric transforms
\* the shears are the multiples of 1 / ShearDen from -1 to 1
ShearDen == 4

\* the corners of the canvas as (cx - hw, cy - hh), doubled
FillCorners(w, h) ==
    {<<-w, -h>>, <<w, -h>>, <<-w, h>>, <<w, h>>}

\* (ix, iy) of a corner, ix times 2 ShearDen^2 and iy times 2 ShearDen
InverseCorner(c, sx, sy) ==
    LET iy == ShearDen * c[2] - sy * c[1]
        ix == ShearDen * ShearDen * c[1] - sx * iy
    IN  <<ix, iy>>

\* computeFillScaleForShears(w, h, sx / ShearDen, sy / ShearDen) as the
\* fraction <<numerator, denominator>>: the maximum of 1, |ix| / hw and
\* |iy| / hh of each corner, all as multiples of 1 / (ShearDen^2 w h)
computeFillScaleForShears(w, h, sx, sy) ==
    LET cands ==
            {ShearDen * ShearDen * w * h}
            \cup {Abs(InverseCorner(c, sx, sy)[1]) * h : c \in FillCorners(w, h)}
            \cup {Abs(InverseCorner(c, sx, sy)[2]) * ShearDen * w : c \in FillCorners(w, h)}
    IN  <<CHOOSE m \in cands : \A o \in cands : m >= o, ShearDen * ShearDen * w * h>>

\* applyGeometricTransforms: the canvas calls it makes, in order; none when
\* it resolves with the image it was given
applyGeometricTransforms(rotation, tilt, zoom, hasCtx) ==
    IF rotation = 0 /\ tilt = 0 /\ zoom = 0
    THEN <<>>
    ELSE IF ~hasCtx
         THEN <<>>
         ELSE <<"fillRect", "translate">>
              \o (IF rotation # 0 THEN <<"rotate">> ELSE <<>>)
              \o (IF tilt # 0 THEN <<"transform">> ELSE <<>>)
              \o (IF zoom # 0 THEN <<"scale">> ELSE <<>>)
              \o <<"drawImage">>

\* ------------------------------------------------------ functions, applied
PureIdle ==
    [fn |-> "none", seed |-> <<>>, u |-> 0, original |-> <<>>, edited |-> <<>>,
     mask |-> <<>>, hasCtx |-> TRUE, applied |-> 0, seedOut |-> 0,
     once |-> <<>>, twice |-> <<>>, args |-> <<>>, out |-> <<>>,
     request |-> <<>>, parts |-> <<>>]

\* the most entries of selectedItems and of refImages
MaxItems == 2

\* an item as handleStudioFile makes it
Item(id, cat, url) ==
    Obj(<<[key |-> "id", val |-> Str(id)], [key |-> "category", val |-> Str(cat)],
          [key |-> "imageUrl", val |-> Str(url)], [key |-> "name", val |-> Str("Item")]>>)

\* the entries of a category: an item with its image, an item without
RequestEntries ==
    {[key |-> c, val |-> Item("0", c, u)] : c \in {"TOP", "PANTS", "BACKGROUND"},
                                         u \in {"", "cloth.png"}}

\* the sequences of at most n elements of S
SeqUpTo(S, n) == UNION {[1..k -> S] : k \in 0..n}

SelectedItemsInputs ==
    {Obj(e) : e \in {q \in SeqUpTo(RequestEntries, MaxItems) :
                        \A i, j \in 1..Len(q) : q[i].key = q[j].key => i = j}}

RefImagesInputs == SeqUpTo({Str(""), Str("ref.png")}, MaxItems)

\* the largest width and height of the images measured
MaxSide == 6

\* the largest maxWidth
MaxMaxWidth == 2

\* the largest width and height of the canvases transformed
MaxCanvas == 2

\* the largest naturalWidth and naturalHeight of the images whose aspect
\* ratio is detected, besides a buffer of 1000 x 750 and one of 900 x 1600
MaxNatural == 17

\* rotation, tilt and zoom, each negative, zero or positive
Sliders == {-10, 0, 10}

\* the seeds resolveSeed is given: undefined, -1, and seeds that are kept
SeedArgs == {<<>>, <<-1>>, <<0>>, <<42>>, <<2147483647>>}

PureInputs ==
    {[PureIdle EXCEPT !.fn = "resolveSeed", !.seed = sd, !.u = u] :
        sd \in SeedArgs, u \in 0..(RandomDen - 1)}
    \cup {[PureIdle EXCEPT !.fn = "binarizeMask", !.mask = m, !.hasCtx = c] :
        m \in Buffers(MaskPixels \cup ImagePixels), c \in BOOLEAN}
    \cup {[PureIdle EXCEPT !.fn = "compositeMaskResult", !.original = a,
                           !.edited = b, !.mask = m, !.hasCtx = c] :
        a \in Buffers(ImagePixels), b \in Buffers(ImagePixels),
        m \in Buffers(MaskPixels), c \in BOOLEAN}
    \cup {[PureIdle EXCEPT !.fn = "optimizeImage", !.args = <<w, h, mw>>, !.hasCtx = c] :
        w \in 1..MaxSide, h \in 1..MaxSide, mw \in 1..MaxMaxWidth, c \in BOOLEAN}
    \cup {[PureIdle EXCEPT !.fn = "generateFittingImage", !.request = <<m, si, r>>] :
        m \in {Null, Str("model.png")}, si \in SelectedItemsInputs, r \in RefImagesInputs}
    \cup {[PureIdle EXCEPT !.fn = "detectAspectRatio", !.args = d] :
        d \in ((0..MaxNatural) \X (0..MaxNatural)) \cup {<<1000, 750>>, <<900, 1600>>}}
    \cup {[PureIdle EXCEPT !.fn = "computeFillScaleForShears", !.args = <<w, h, sx, sy>>] :
        w \in 1..MaxCanvas, h \in 1..MaxCanvas, sx \in -ShearDen..ShearDen,
        sy \in -ShearDen..ShearDen}
    \cup {[PureIdle EXCEPT !.fn = "applyGeometricTransforms", !.args = <<r, t, z>>,
                           !.hasCtx = c] :
        r \in Sliders, t \in Sliders, z \in Sliders, c \in BOOLEAN}

ApplyResolveSeed ==
    /\ pure.fn = "resolveSeed"
    /\ pure.applied = 0
    /\ pure' = [pure EXCEPT !.applied = 1, !.seedOut = resolveSeed(pure.seed, pure.u)]
    /\ UNCHANGED <<studioVars, rt, svc>>

\* binarizeMask applied to the mask, then to its own result
ApplyBinarizeMask ==
    /\ pure.fn = "binarizeMask"
    /\ pure.applied < 2
    /\ pure' = IF pure.applied = 0
               THEN [pure EXCEPT !.applied = 1,
                                 !.once = binarizeMask(pure.mask, pure.hasCtx)]
               ELSE [pure EXCEPT !.applied = 2,
                                 !.twice = binarizeMask(pure.once, pure.hasCtx)]
    /\ UNCHANGED <<studioVars, rt, svc>>

ApplyCompositeMaskResult ==
    /\ pure.fn = "compositeMaskResult"
    /\ pure.applied = 0
    /\ pure' = [pure EXCEPT !.applied = 1,
                            !.once = compositeMaskResult(pure.original, pure.edited,
                                                         pure.mask, pure.hasCtx)]
    /\ UNCHANGED <<studioVars, rt, svc>>

ApplyOptimizeImage ==
    /\ pure.fn = "optimizeImage"
    /\ pure.applied = 0
    /\ pure' = [pure EXCEPT !.applied = 1,
                            !.out = optimizeImage(pure.args[1], pure.args[2],
                                                  pure.args[3], pure.hasCtx)]
    /\ UNCHANGED <<studioVars, rt, svc>>

ApplyFittingParts ==
    /\ pure.fn = "generateFittingImage"
    /\ pure.applied = 0
    /\ pure' = [pure EXCEPT !.applied = 1,
                            !.parts = FittingParts(pure.request[1], pure.request[2],
                                                   pure.request[3])]
    /\ UNCHANGED <<studioVars, rt, svc>>

ApplyDetectAspectRatio ==
    /\ pure.fn = "detectAspectRatio"
    /\ pure.applied = 0
    /\ pure' = [pure EXCEPT !.applied = 1,
                            !.out = <<detectAspectRatio(pure.args[1], pure.args[2])>>]
    /\ UNCHANGED <<studioVars, rt, svc>>

ApplyComputeFillScale ==
    /\ pure.fn = "computeFillScaleForShears"
    /\ pure.applied = 0
    /\ pure' = [pure EXCEPT !.applied = 1,
                            !.out = computeFillScaleForShears(pure.args[1], pure.args[2],
                                                              pure.args[3], pure.args[4])]
    /\ UNCHANGED <<studioVars, rt, svc>>

ApplyGeometricTransforms ==
    /\ pure.fn = "applyGeometricTransforms"
    /\ pure.applied = 0
    /\ pure' = [pure EXCEPT !.applied = 1,
                            !.out = applyGeometricTransforms(pure.args[1], pure.args[2],
                                                             pure.args[3], pure.hasCtx)]
    /\ UNCHANGED <<studioVars, rt, svc>>

NextPure ==
    \/ ApplyResolveSeed
    \/ ApplyBinarizeMask
    \/ ApplyCompositeMaskResult
    \/ ApplyOptimizeImage
    \/ ApplyFittingParts
    \/ ApplyDetectAspectRatio
    \/ ApplyComputeFillScale
    \/ ApplyGeometricTransforms

\* ------------------------------------------------------------------- Init
IdleLocal == [batchId |-> NoBatch, n |-> 0, baseSeed |-> 0, keys |-> <<"", "">>]

RtIdle ==
    [state |-> "idle", retries |-> DefaultRetries, delay |-> InitialDelay,
     calls |-> 0, delays |-> <<>>, failures |-> <<>>, err |-> NoError]

\* retryOperation(operation) has just invoked operation() for the first time
RtStart ==
    [RtIdle EXCEPT !.state = "calling", !.calls = 1]

StudioInit ==
    /\ now = 0
    /\ generatedBatches = <<>>
    /\ error = NullMsg
    /\ cancelControllers = [id \in Ids |-> NoController]
    /\ aborted = [g \in Gen |-> FALSE]
    /\ pc = [g \in Gen |-> "idle"]
    /\ local = [g \in Gen |-> IdleLocal]
    /\ sub = [g \in Gen |-> <<>>]
    /\ result = [g \in Gen |-> NoResult]
    /\ studioHistory = <<Snapshot(<<>>, NullMsg)>>
    /\ history = <<>>
    /\ currentView = "FRONT"
    /\ views = [v \in Views |-> EmptyView]
    /\ fittingCall = [called |-> FALSE, modelImg |-> Null,
                      selectedItems |-> Obj(<<>>), view |-> "FRONT"]

Init ==
    /\ StudioInit
    /\ rt = RtIdle
    /\ svc = SvcIdle
    /\ pure = PureIdle

\* ------------------------------------------------------- generateStudio
\* generateStudio up to `await checkApiKey()`
GenerateStudio(g) ==
    /\ pc[g] = "idle"
    /\ \A h \in Gen : h < g => pc[h] # "idle"
    /\ pc' = [pc EXCEPT ![g] = IF Admit(generatedBatches) THEN "checkApiKey" ELSE "rejected"]
    /\ UNCHANGED <<now, generatedBatches, error, cancelControllers, aborted, local,
                   sub, result, studioHistory, history, rt, svc, pure, viewVars>>

\* generateStudio once generateFittingImage has settled with `res`, the batch
\* list, error slot and registry being bs, err and cc at that moment
StudioSettled(g, id, res, bs, err, cc) ==
    /\ result' = [result EXCEPT ![g] = res]
    /\ IF res.kind = "ok"
       THEN /\ generatedBatches' = CompleteBatch(bs, id, res.imageUrls)
            /\ error' = err
            /\ history' = NewHistoryItems(id, res) \o history
            /\ cancelControllers' = DeleteController(cc, id)
            /\ pc' = [pc EXCEPT ![g] = "completed"]
       ELSE IF IsSilent(res.kind)
            THEN /\ generatedBatches' = bs
                 /\ error' = err
                 /\ history' = history
                 /\ cancelControllers' = cc
                 /\ pc' = [pc EXCEPT ![g] = "cancelled"]
            ELSE /\ generatedBatches' = FailBatch(bs, id, res.kind)
                 /\ error' = res.kind
                 /\ history' = history
                 /\ cancelControllers' = DeleteController(cc, id)
                 /\ pc' = [pc EXCEPT ![g] = "error"]

\* generateFittingImage from the dispatch of the parallel requests on
StartGeneration(g, id, n, baseSeed, bs, err, cc) ==
    LET subs == DispatchAll(n, baseSeed, aborted[g])
    IN  /\ sub' = [sub EXCEPT ![g] = subs]
        /\ IF AllSettled(subs)
           THEN StudioSettled(g, id, FittingResult(subs, aborted[g]), bs, err, cc)
           ELSE /\ generatedBatches' = bs
                /\ error' = err
                /\ cancelControllers' = cc
                /\ pc' = [pc EXCEPT ![g] = "generating"]
                /\ UNCHANGED <<result, history>>

\* generateStudio from the return of checkApiKey to the first await inside
\* generateFittingImage.  numberOfImages and the seed setting are those of
\* the render the call was made from; keys are what getGenAI looks up;
\* hasInputs tells whether any image part has to go through optimizeImage.
CheckApiKeyReturn(g, ok, t, n, seedOpt, u, keys, hasInputs) ==
    /\ pc[g] = "checkApiKey"
    /\ IF ~ok
       THEN /\ pc' = [pc EXCEPT ![g] = "returned"]
            /\ UNCHANGED <<now, generatedBatches, error, cancelControllers, aborted,
                           local, sub, result, studioHistory, history, rt, svc, pure, viewVars>>
       ELSE LET id == t
                cc == [cancelControllers EXCEPT ![id] = g]
                bs == <<NewBatch(id, n)>> \o generatedBatches
                ai == getGenAI(keys)
                baseSeed == IF ai.ok THEN resolveSeed(seedOpt, u) ELSE 0
            IN  /\ local' = [local EXCEPT ![g] =
                                 [batchId |-> id, n |-> n, baseSeed |-> baseSeed,
                                  keys |-> keys]]
                /\ IF ~ai.ok
                   THEN /\ StudioSettled(g, id, Rejection(ai.msg), bs, NullMsg, cc)
                        /\ UNCHANGED sub
                   ELSE IF hasInputs
                        THEN /\ generatedBatches' = bs
                             /\ error' = NullMsg
                             /\ cancelControllers' = cc
                             /\ pc' = [pc EXCEPT ![g] = "optimizing"]
                             /\ UNCHANGED <<sub, result, history>>
                        ELSE StartGeneration(g, id, n, baseSeed, bs, NullMsg, cc)
                /\ now' = t
                /\ UNCHANGED <<aborted, studioHistory, rt, svc, pure, viewVars>>

\* generateFittingImage resumes after its awaits on optimizeImage: the
\* second signal check, then the dispatch
OptimizeDone(g) ==
    /\ pc[g] = "optimizing"
    /\ IF aborted[g]
       THEN /\ StudioSettled(g, local[g].batchId, Rejection(CancelledMsg),
                             generatedBatches, error, cancelControllers)
            /\ UNCHANGED sub
       ELSE StartGeneration(g, local[g].batchId, local[g].n, local[g].baseSeed,
                            generatedBatches, error, cancelControllers)
    /\ UNCHANGED <<now, aborted, local, studioHistory, rt, svc, pure, viewVars>>

\* a generateContent call of sub-generation i settles with `reply`; when it
\* was the last one pending, Promise.all resolves and generateStudio goes on
ProviderReply(g, i, reply) ==
    /\ pc[g] = "generating"
    /\ i \in 1..Len(sub[g])
    /\ sub[g][i].st = "inflight"
    /\ LET s2 == SubAfterReply(sub[g][i], reply, aborted[g], SettledCount(sub[g]) + 1)
           subs == [sub[g] EXCEPT ![i] = s2]
       IN  /\ sub' = [sub EXCEPT ![g] = subs]
           /\ IF AllSettled(subs)
              THEN StudioSettled(g, local[g].batchId, FittingResult(subs, aborted[g]),
                                 generatedBatches, error, cancelControllers)
              ELSE UNCHANGED <<generatedBatches, error, cancelControllers, pc,
                               result, history>>
    /\ UNCHANGED <<now, aborted, local, studioHistory, rt, svc, pure, viewVars>>

\* the backoff timer of sub-generation i fires: retryOperation calls itself
BackoffElapsed(g, i) ==
    /\ pc[g] = "generating"
    /\ i \in 1..Len(sub[g])
    /\ sub[g][i].st = "backoff"
    /\ sub' = [sub EXCEPT ![g][i] = SubRetry(sub[g][i])]
    /\ UNCHANGED <<now, generatedBatches, error, cancelControllers, aborted, pc,
                   local, result, studioHistory, history, rt, svc, pure, viewVars>>

\* -------------------------------------------------- handleCancelGeneration
\* the cancel button is rendered for the batches shown as loading
Cancellable ==
    {generatedBatches[k].id : k \in {j \in 1..Len(generatedBatches) :
                                       generatedBatches[j].status = "loading"}}

HandleCancelGeneration(batchId) ==
    /\ batchId \in Cancellable
    /\ IF cancelControllers[batchId] # NoController
       THEN /\ aborted' = [aborted EXCEPT ![cancelControllers[batchId]] = TRUE]
            /\ cancelControllers' = DeleteController(cancelControllers, batchId)
       ELSE UNCHANGED <<aborted, cancelControllers>>
    /\ generatedBatches' = RemoveBatch(generatedBatches, batchId)
    /\ UNCHANGED <<now, error, pc, local, sub, result, studioHistory, history, rt, svc, pure, viewVars>>

\* ------------------------------------------------ saveStudioState, undo
\* the 500 ms timer armed by each change of studioState fires
SaveStudioState ==
    LET newState == Snapshot(generatedBatches, error)
        kept == IF Len(studioHistory) > HistoryLimit
                THEN Tail(studioHistory) ELSE studioHistory
    IN  /\ Len(studioHistory) < MaxSnapshots
        /\ kept = <<>> \/ kept[Len(kept)] # newState
        /\ studioHistory' = Append(kept, newState)
        /\ UNCHANGED <<now, generatedBatches, error, cancelControllers, aborted, pc,
                       local, sub, result, history, rt, svc, pure, viewVars>>

\* performUndo on the STUDIO page
PerformUndo ==
    /\ Len(studioHistory) > 1
    /\ LET popped == SubSeq(studioHistory, 1, Len(studioHistory) - 1)
           previousState == popped[Len(popped)]
       IN  /\ studioHistory' = popped
           /\ generatedBatches' = previousState.generatedBatches
           /\ error' = previousState.error
    /\ UNCHANGED <<now, cancelControllers, aborted, pc, local, sub, result,
                   history, rt, svc, pure, viewVars>>

\* ----------------------------------------------- retryOperation, alone
\* operation() resolves: retryOperation returns its value
RetryReturn ==
    /\ rt.state = "calling"
    /\ rt' = [rt EXCEPT !.state = "returned"]
    /\ UNCHANGED <<studioVars, svc, pure>>

\* operation() rejects with e: the catch block
RetryFail(e) ==
    /\ rt.state = "calling"
    /\ LET rc == RetryCatch(e, rt.retries)
       IN  rt' = IF rc.kind = "retry"
                 THEN [rt EXCEPT !.state = "waiting",
                                 !.failures = Append(@, e),
                                 !.delays = Append(@, rt.delay)]
                 ELSE [rt EXCEPT !.state = "thrown",
                                 !.failures = Append(@, e),
                                 !.err = rc.err]
    /\ UNCHANGED <<studioVars, svc, pure>>

\* the timer fires: retryOperation(operation, retries - 1, delay * 2)
RetryAgain ==
    /\ rt.state = "waiting"
    /\ rt' = [rt EXCEPT !.state = "calling", !.retries = @ - 1,
                        !.delay = NextDelay(@), !.calls = @ + 1]
    /\ UNCHANGED <<studioVars, svc, pure>>

NextRetry ==
    \/ RetryReturn
    \/ \E e \in Errors : RetryFail(e)
    \/ RetryAgain

InitRetry ==
    /\ StudioInit
    /\ rt = RtStart
    /\ svc = SvcIdle
    /\ pure = PureIdle

SpecRetry == InitRetry /\ [][NextRetry]_vars

InitPure ==
    /\ StudioInit
    /\ rt = RtIdle
    /\ svc = SvcIdle
    /\ pure \in PureInputs

SpecPure == InitPure /\ [][NextPure]_vars

\* ------------------------------------------------------------- the views
\* the most uploads the two views take together
MaxUploads == 2

\* the categories and the images uploaded
UploadCategories == {"MODEL", "TOP", "PANTS"}

Uploads == {"a.png", "b.png"}

handleStudioFile(cat, b64, t) ==
    LET view == views[currentView]
        other == OtherView(currentView)
        item == Item(ToString(t), cat, b64)
    IN  \* each upload nests items one object deeper
        /\ Nesting(views["FRONT"]) + Nesting(views["BACK"]) - 2 < MaxUploads
        /\ now' = t
        /\ views' =
             [v \in Views |->
                IF v = currentView
                THEN Put(view, "items",
                         Put(view, "items", Put(Get(view, "items"), cat, item)))
                ELSE IF cat \in ModelCategories
                     THEN Put(views[other], "modelImage", Str(b64))
                     ELSE views[v]]
        /\ UNCHANGED <<currentView, fittingCall, batchVars, rt, svc, pure>>

handleStudioRemove(cat) ==
    /\ views' = [views EXCEPT ![currentView] =
                     Put(@, "items", Delete(Get(@, "items"), cat))]
    /\ UNCHANGED <<now, currentView, fittingCall, batchVars, rt, svc, pure>>

\* the buttons of the two views
SetCurrentView(v) ==
    /\ currentView' = v
    /\ UNCHANGED <<now, views, fittingCall, batchVars, rt, svc, pure>>

\* generateStudio, as to what it passes to generateFittingImage
GenerateStudioCall ==
    /\ fittingCall' = FittingArguments(currentView, views)
    /\ UNCHANGED <<now, currentView, views, batchVars, rt, svc, pure>>

NextViews ==
    \/ \E cat \in UploadCategories, b64 \in Uploads, t \in now..MaxClock :
          handleStudioFile(cat, b64, t)
    \/ \E cat \in UploadCategories : handleStudioRemove(cat)
    \/ \E v \in Views : SetCurrentView(v)
    \/ GenerateStudioCall

SpecViews == Init /\ [][NextViews]_vars

\* ------------------------------------------------------- specifications
\* the steps of the studio for the calls G of generateStudio, made with
\* numberOfImages in N and a seed setting in S, the provider failing with
\* the errors E, the key sources holding one of K
StudioNext(G, N, S, E, K) ==
    \/ \E g \in G : GenerateStudio(g)
    \/ \E g \in G, ok \in BOOLEAN, t \in now..MaxClock, n \in N, seedOpt \in S,
          u \in RandomDraws, keys \in K, hasInputs \in BOOLEAN :
          CheckApiKeyReturn(g, ok, t, n, seedOpt, u, keys, hasInputs)
    \/ \E g \in G : OptimizeDone(g)
    \/ \E g \in G, i \in N :
          \E reply \in Replies(local[g].baseSeed + i - 1, E) : ProviderReply(g, i, reply)
    \/ \E id \in Ids : HandleCancelGeneration(id)

\* one call of generateStudio, for up to MaxImages images, with the retries
\* of its provider calls and the undo stack of the studio
Next ==
    \/ StudioNext({1}, 1..MaxImages, SeedInputs, ProviderErrors, KeySources)
    \/ \E i \in 1..MaxImages : BackoffElapsed(1, i)
    \/ SaveStudioState
    \/ PerformUndo

Spec == Init /\ [][Next]_vars

\* MaxGen calls of generateStudio racing, for up to StudioImages images each,
\* the provider failing with errors that are not retried, the undo stack
\* left alone
NextBatches ==
    StudioNext(Gen, 1..StudioImages, StudioSeeds, HardErrors, StudioKeys)

SpecBatches == Init /\ [][NextBatches]_vars

\* the steps the program takes by itself once a call is under way: awaited
\* promises settle and timers fire
Settling ==
    \/ \E ok \in BOOLEAN, t \in now..MaxClock, n \in 1..MaxImages, seedOpt \in SeedInputs,
          u \in RandomDraws, keys \in KeySources, hasInputs \in BOOLEAN :
          CheckApiKeyReturn(1, ok, t, n, seedOpt, u, keys, hasInputs)
    \/ OptimizeDone(1)
    \/ \E i \in 1..MaxImages :
          \E reply \in Replies(local[1].baseSeed + i - 1, ProviderErrors) :
             ProviderReply(1, i, reply)
    \/ \E i \in 1..MaxImages : BackoffElapsed(1, i)

\* Spec with every awaited promise settling and every timer firing in the end
SpecLive == Init /\ [][Next]_vars /\ WF_vars(Settling)

\* one runEdit or runInpaint call, with the retries of its provider call
NextService ==
    \/ ServiceNext(Buffers(ImagePixels), Buffers(MaskPixels), StudioKeys, ProviderErrors)
    \/ ServiceBackoffElapsed

SpecService == Init /\ [][NextService]_vars

\* one generateStudio call for one image and one runEdit or runInpaint call,
\* over all the contents of the key sources
NextKeys ==
    \/ StudioNext({1}, {1}, StudioSeeds, HardErrors, KeySources)
    \/ ServiceNext({[i \in 1..BufLen |-> <<10, 20, 30, 255>>]}, {WhiteMask, BlackMask},
                   KeySources, HardErrors)

SpecKeys == Init /\ [][NextKeys]_vars

\* ----------------------------------------------------------------- claims
BatchIndex == 1..Len(generatedBatches)

InFitting(g) ==
    pc[g] \in {"optimizing", "generating"}

\* C1: a generateStudio call made while 2 (or more) batches are loading is
\* rejected: it leaves the batch list, the abort-controller registry and the
\* provider calls as they are, and the rejected call never gets a batch, a
\* controller or a provider call later on.
C1_AdmissionCeiling ==
    [][\A g \in Gen :
          /\ (pc[g] = "idle" /\ pc'[g] # "idle" /\ LoadingCount(generatedBatches) >= 2)
                => /\ pc'[g] = "rejected"
                   /\ UNCHANGED <<generatedBatches, cancelControllers, sub>>
          /\ pc[g] = "rejected"
                => /\ pc'[g] = "rejected"
                   /\ local'[g] = IdleLocal
                   /\ sub'[g] = <<>>
                   /\ \A id \in Ids : cancelControllers'[id] # g]_vars

C1_Witness ==
    \E g \in Gen : pc[g] = "rejected" /\ LoadingCount(generatedBatches) = 2

\* C2: in every reachable state at most 2 batches of generatedBatches are
\* loading.
C2_AtMostTwoLoading ==
    LoadingCount(generatedBatches) <= 2

\* C3: the status of a batch only ever goes from loading to completed or from
\* loading to error; a completed or failed batch keeps its status as long as
\* it is in the list.
C3_StatusTransitions ==
    [][\A k \in BatchIndex : \A j \in 1..Len(generatedBatches') :
          generatedBatches'[j].id = generatedBatches[k].id
             => \/ generatedBatches'[j].status = generatedBatches[k].status
                \/ /\ generatedBatches[k].status = "loading"
                   /\ generatedBatches'[j].status \in {"completed", "error"}]_vars

\* C4: once handleCancelGeneration has aborted the generation of a batch, no
\* batch with that id is in generatedBatches in any later state.
C4_CancelledStaysAbsent ==
    \A g \in Gen : aborted[g] =>
        \A k \in BatchIndex : generatedBatches[k].id # local[g].batchId

\* C5: once the abort signal of a batch is set, no provider call is started
\* for that batch: none of its sub-generations gets a call in flight that it
\* did not have in flight before.
C5_NoCallAfterAbort ==
    [][\A g \in Gen : \A i \in 1..Len(sub'[g]) :
          (aborted[g] /\ sub'[g][i].st = "inflight")
             => /\ i <= Len(sub[g])
                /\ sub[g][i] = sub'[g][i]]_vars

\* C6: when the abort signal is set before generateFittingImage aggregates
\* its results, generateFittingImage rejects with "Cancelled" (it returns no
\* images and does not raise the empty-result error), and generateStudio
\* then leaves the batch list and the error slot as they are.
C6_CancelledIsSilent ==
    [][\A g \in Gen :
          (aborted[g] /\ InFitting(g) /\ ~InFitting(g)')
             => /\ result'[g] = Rejection("Cancelled")
                /\ pc'[g] = "cancelled"
                /\ UNCHANGED <<generatedBatches, error>>]_vars

C6_Witness ==
    /\ pc[1] = "cancelled"
    /\ aborted[1]
    /\ result[1].kind = "Cancelled"
    /\ Len(sub[1]) = 2
    /\ error = NullMsg

\* the delays the claim names, and the two classes of errors it tells apart
RetrySchedule == <<2000, 4000, 8000>>

MentionsNetwork(e) ==
    e.msg \cap {"load failed", "fetch failed"} # {}

MentionsOverload(e) ==
    e.status = 503 \/ e.code = 503 \/ e.msg \cap {"overloaded", "503"} # {}

OnlyOverloads(log) ==
    \A k \in 1..Len(log) : MentionsOverload(log[k]) /\ ~MentionsNetwork(log[k])

C8_NonRetryableEndsAtOnce ==
    \A j \in 1..Len(rt.failures) :
        LET e == rt.failures[j]
        IN  (MentionsNetwork(e) \/ ~MentionsOverload(e))
               => /\ j = Len(rt.failures)
                  /\ rt.state = "thrown"
                  /\ rt.calls = j
                  /\ Len(rt.delays) = j - 1
                  /\ rt.err = IF MentionsNetwork(e) THEN NetworkError ELSE e

C8_Witness ==
    /\ rt.state = "thrown"
    /\ rt.failures = <<Err(503, 0, {"fetch failed", "503"})>>
    /\ rt.err = NetworkError
    /\ rt.calls = 1
    /\ rt.delays = <<>>

\* C9: a successful return of generateFittingImage has at least one image,
\* as many seeds as images and at most numberOfImages images; when every
\* sub-generation yielded null and the signal is not aborted, it rejects with
\* the no-image-data error.
C9_NeverEmptySuccess ==
    \A g \in Gen :
        /\ result[g].kind = "ok"
              => /\ Len(result[g].imageUrls) >= 1
                 /\ Len(result[g].imageUrls) = Len(result[g].seeds)
                 /\ Len(result[g].imageUrls) <= local[g].n
        /\ (/\ Len(sub[g]) > 0
            /\ \A i \in 1..Len(sub[g]) : sub[g][i].st = "null"
            /\ ~aborted[g])
              => result[g] = Rejection("no image data in response")

C9_Witness ==
    /\ Len(sub[1]) = 2
    /\ \A i \in 1..2 : sub[1][i].st = "null"
    /\ ~aborted[1]
    /\ pc[1] = "error"
    /\ result[1].kind = "no image data in response"

\* C10: whatever the order in which the sub-generations settle, the seeds of
\* a successful result are strictly increasing and the image at each
\* position is the one the provider returned for the call made with the seed
\* at that position.
C10_IndexOrder ==
    \A g \in Gen :
        result[g].kind = "ok"
           => /\ \A j \in 1..(Len(result[g].seeds) - 1) :
                    result[g].seeds[j] < result[g].seeds[j + 1]
              /\ \A j \in 1..Len(result[g].imageUrls) :
                    /\ result[g].imageUrls[j] = ProviderImage(result[g].seeds[j])
                    /\ \E i \in 1..Len(sub[g]) :
                          /\ sub[g][i].seed = result[g].seeds[j]
                          /\ sub[g][i].img = result[g].imageUrls[j]

C10_Witness ==
    /\ result[1].kind = "ok"
    /\ Len(result[1].imageUrls) = 2
    /\ sub[1][2].rank < sub[1][1].rank

\* C11: a fitting request for N images whose signal is not aborted starts
\* exactly N provider operations in one step, before any of them is awaited,
\* and the operation of index i runs with seed baseSeed + i, so that the N
\* seeds are pairwise distinct and fixed by baseSeed.
C11_ParallelDispatch ==
    [][\A g \in Gen :
          (pc[g] # "generating" /\ pc'[g] = "generating" /\ ~aborted[g]) =>
             LET s == sub'[g]
                 N == local'[g].n
             IN  /\ Len(s) = N
                 /\ \A i \in 1..N : /\ s[i].st = "inflight"
                                     /\ s[i].seed = local'[g].baseSeed + (i - 1)
                 /\ \A i, j \in 1..N : i # j => s[i].seed # s[j].seed]_vars

\* a request for several images just dispatched: all its calls are pending
C11_Witness ==
    /\ pc[1] = "generating"
    /\ local[1].n > 1
    /\ ~aborted[1]
    /\ \A i \in 1..Len(sub[1]) :
          sub[1][i].st = "inflight" /\ sub[1][i].retries = DefaultRetries

\* C12: from its creation to its removal a batch holds as many images as
\* were requested when it was created, also once it is completed after some
\* of its sub-generations failed.
C12_ImageCountInvariant ==
    \A k \in BatchIndex : \A g \in Gen :
        generatedBatches[k].id = local[g].batchId =>
            Len(generatedBatches[k].images) = local[g].n

\* C18: for images A and B of one size, compositeMaskResult(A, B, mask)
\* equals A in all four channels of every pixel when the mask is all black,
\* and equals B likewise when the mask is all white.
C18_CompositeIdentity ==
    (pure.fn = "compositeMaskResult" /\ pure.applied = 1) =>
        /\ pure.mask = BlackMask => pure.once = pure.original
        /\ pure.mask = WhiteMask => pure.once = pure.edited

C20_ResolveSeed ==
    (pure.fn = "resolveSeed" /\ pure.applied = 1) =>
        IF pure.seed # <<>> /\ pure.seed[1] # -1
        THEN pure.seedOut = pure.seed[1]
        ELSE pure.seedOut >= 0 /\ pure.seedOut < 2147483647

\* resolveSeed(-1) with the largest draw of the random source
C20_Witness ==
    /\ pure.fn = "resolveSeed"
    /\ pure.applied = 1
    /\ pure.seed = <<-1>>
    /\ pure.u = RandomDen - 1
    /\ pure.seedOut > 0

\* the key sources hold no key
KeyAbsent(keys) ==
    Trim(keys[1]) = "" /\ Trim(keys[2]) = ""

\* C13: when no API key is to be had from any source, generateFittingImage,
\* generateEditedImage and generateInpainting each reject with the
\* configuration error, no provider call is issued and nothing is retried.
C13_MissingKeyFailsFast ==
    /\ \A g \in Gen :
          (local[g].batchId # NoBatch /\ KeyAbsent(local[g].keys)) =>
              /\ result[g].kind = ConfigMsg
              /\ sub[g] = <<>>
    /\ (svc.fn # "none" /\ KeyAbsent(svc.keys)) =>
          /\ svc.pc = "failed"
          /\ svc.err = ConfigMsg
          /\ svc.calls = 0
          /\ svc.retries = DefaultRetries

\* a studio generation and an inpainting both refused for want of a key, the
\* environment holding blanks only
C13_Witness ==
    /\ pc[1] = "error"
    /\ local[1].keys = <<"", " ">>
    /\ generatedBatches # <<>> /\ generatedBatches[1].errorMsg = ConfigMsg
    /\ svc.fn = "generateInpainting"
    /\ svc.keys = <<" ", "">>
    /\ svc.pc = "failed"

\* C14: when a provider call of a fitting request fails with a load failed
\* or fetch failed error and no image is produced, generateFittingImage
\* rejects with the network message, which becomes the batch's errorMsg.
C14_NetworkErrorSurfaced ==
    \A g \in Gen :
        (/\ result[g].kind # "none"
         /\ ~aborted[g]
         /\ \E i \in 1..Len(sub[g]) : sub[g][i].err = NetworkError
         /\ \A i \in 1..Len(sub[g]) : sub[g][i].st # "image") =>
            /\ result[g].kind = NetworkMsg
            /\ \A k \in BatchIndex :
                  (generatedBatches[k].id = local[g].batchId
                   /\ generatedBatches[k].status = "error") =>
                      generatedBatches[k].errorMsg = NetworkMsg

\* no pixel of the mask has a red channel above 128
NothingSelected(mask) ==
    \A i \in 1..Len(mask) : ~(mask[i][1] > 128)

\* C15 as stated: generateInpainting called with a mask without any pixel
\* whose red channel exceeds 128 rejects with the no-selection error and
\* issues no provider call.
C15_NoSelectionError ==
    (svc.fn = "generateInpainting" /\ NothingSelected(svc.mask)) =>
        /\ svc.calls = 0
        /\ svc.pc \in {"cropping", "failed"}
        /\ svc.pc = "failed" => svc.err = NoSelectionMsg

\* C15: generateInpainting called with a mask without any pixel whose red
\* channel exceeds 128 issues no provider call and rejects, with the
\* no-selection error when getGenAI found a key and with the configuration
\* error otherwise.
C15_NoSelectionErrorGivenKey ==
    (svc.fn = "generateInpainting" /\ NothingSelected(svc.mask)) =>
        /\ svc.calls = 0
        /\ svc.pc \in {"cropping", "failed"}
        /\ svc.pc = "failed" =>
              svc.err = IF getGenAI(svc.keys).ok THEN NoSelectionMsg ELSE ConfigMsg

\* an inpainting refused for a mask whose brightest pixel has red 128
C15_Witness ==
    /\ svc.fn = "generateInpainting"
    /\ svc.pc = "failed"
    /\ svc.err = NoSelectionMsg
    /\ \E i \in 1..Len(svc.mask) : svc.mask[i][1] = 128

\* C16: the image runInpaint stores for a completed inpaint request equals
\* the original at every pixel where the mask is black, on every path of
\* the pipeline, its fallbacks included.
C16_OutsideMaskPreserved ==
    (svc.fn = "generateInpainting" /\ svc.pc = "done") =>
        /\ Len(svc.imageUrl) = Len(svc.original)
        /\ \A i \in 1..Len(svc.original) :
              svc.mask[i] = <<0, 0, 0, 255>> => svc.imageUrl[i] = svc.original[i]

\* C17: the mask handed to pasteCropIntoOriginal is the output of
\* binarizeMask, each of its channels being 0 or 255.
C17_BlendMaskBinarized ==
    (svc.fn = "generateInpainting" /\ svc.pc \in {"pasting", "done"}) =>
        /\ svc.blendMask = binarizeMask(svc.mask, TRUE)
        /\ \A i \in 1..Len(svc.blendMask) : \A c \in 1..4 :
              svc.blendMask[i][c] \in {0, 255}

EntryInFlight(cc, id) ==
    cc[id] # NoController =>
        /\ InFitting(cc[id])
        /\ local[cc[id]].batchId = id
        /\ ~aborted[cc[id]]

\* C28: the registry holds an entry for an id only while a generation for
\* that id is in flight, none after it completed, failed or was cancelled;
\* handleCancelGeneration for an id without entry aborts nothing and leaves
\* the registry and the batches of other ids as they are.
C28_RegistryRemoval ==
    [][/\ \A id \in Ids : EntryInFlight(cancelControllers, id)
       /\ \A g \in Gen :
             (pc[g] # pc'[g] /\ pc'[g] \in {"completed", "error", "cancelled"}) =>
                 (cancelControllers'[local'[g].batchId] = NoController
                  \/ cancelControllers'[local'[g].batchId] # g)
       /\ \A g \in Gen :
             (~aborted[g] /\ aborted'[g]) =>
                 /\ cancelControllers[local[g].batchId] = g
                 /\ cancelControllers'[local[g].batchId] = NoController
                 /\ generatedBatches' = RemoveBatch(generatedBatches, local[g].batchId)
       /\ (pc' = pc /\ studioHistory' = studioHistory /\ aborted' = aborted
           /\ generatedBatches' # generatedBatches) =>
              /\ cancelControllers' = cancelControllers
              /\ \E id \in Ids : generatedBatches' = RemoveBatch(generatedBatches, id)]_vars

\* a completed batch brought back as loading by undo, then cancelled
C28_Witness ==
    /\ pc[1] = "completed"
    /\ ~aborted[1]
    /\ generatedBatches = <<>>
    /\ Len(studioHistory) = 2
    /\ studioHistory[2].generatedBatches # <<>>
    /\ cancelControllers[local[1].batchId] = NoController

\* a batch of this id is loading
HasLoading(id) ==
    \E k \in BatchIndex :
        generatedBatches[k].id = id /\ generatedBatches[k].status = "loading"

\* C29: every batch that enters status loading leaves it in the end, every
\* provider call settling; none stays loading for ever.
C29_LoadingEnds ==
    \A id \in Ids : HasLoading(id) ~> ~HasLoading(id)

\* C30: no two batches of generatedBatches share an id, and no two
\* generations in flight share a registry entry.
C30_UniqueIds ==
    /\ \A j, k \in BatchIndex : j # k => generatedBatches[j].id # generatedBatches[k].id
    /\ \A g, h \in Gen :
          (g # h /\ InFitting(g) /\ InFitting(h)) => local[g].batchId # local[h].batchId

\* C25: both dimensions of what optimizeImage puts out are at most maxDim
\* and at least 1; an input within maxDim keeps its dimensions; an input
\* beyond it has its longer edge set to maxDim and the other edge scaled by
\* the same ratio, rounded.
C25_OptimizeBounds ==
    (pure.fn = "optimizeImage" /\ pure.applied = 1) =>
        LET w == pure.args[1]
            h == pure.args[2]
            maxDim == pure.args[3]
            ow == pure.out[1]
            oh == pure.out[2]
        IN  /\ ow <= maxDim /\ oh <= maxDim
            /\ ow >= 1 /\ oh >= 1
            /\ (w <= maxDim /\ h <= maxDim) => (ow = w /\ oh = h)
            /\ (w > maxDim \/ h > maxDim) =>
                  IF w >= h
                  THEN ow = maxDim /\ oh = RoundDiv(h * maxDim, w)
                  ELSE oh = maxDim /\ ow = RoundDiv(w * maxDim, h)

\* |w / h - r| of entry a is less than that of entry b, as fractions
C26_Closer(w, h, a, b) ==
    Abs(w * Ratios[a].r[2] - Ratios[a].r[1] * h) * Ratios[b].r[2]
        < Abs(w * Ratios[b].r[2] - Ratios[b].r[1] * h) * Ratios[a].r[2]

\* C26: for an image of positive width w and height h, detectAspectRatio
\* returns the entry of the table whose ratio minimises |w / h - r|, the
\* earlier entry when two are equally close; 1000 x 750 gives 4:3 and
\* 900 x 1600 gives 9:16.
C26_NearestRatio ==
    (pure.fn = "detectAspectRatio" /\ pure.applied = 1
       /\ pure.args[1] > 0 /\ pure.args[2] > 0) =>
        LET w == pure.args[1]
            h == pure.args[2]
            c == pure.out[1]
        IN  /\ \A j \in 1..Len(Ratios) : ~C26_Closer(w, h, j, c)
            /\ \A j \in 1..(c - 1) : C26_Closer(w, h, c, j)
            /\ pure.args = <<1000, 750>> => Ratios[c].value = "4:3"
            /\ pure.args = <<900, 1600>> => Ratios[c].value = "9:16"

\* C27: the fill-scale of a W x H canvas is at least 1 and is the least
\* scale by which the inverse-mapped corners, divided by it, stay within
\* the half-width and half-height; and the geometric transform scales by it
\* whenever rotation or tilt is not zero.
C27_FillScale ==
    /\ (pure.fn = "computeFillScaleForShears" /\ pure.applied = 1) =>
          LET w == pure.args[1]
              h == pure.args[2]
              num == pure.out[1]
              den == pure.out[2]
              inv == {InverseCorner(c, pure.args[3], pure.args[4]) : c \in FillCorners(w, h)}
          IN  /\ num >= den
              /\ \A i \in inv : /\ Abs(i[1]) * den <= num * ShearDen * ShearDen * w
                                 /\ Abs(i[2]) * den <= num * ShearDen * h
              /\ \/ num = den
                 \/ \E i \in inv : \/ Abs(i[1]) * den = num * ShearDen * ShearDen * w
                                    \/ Abs(i[2]) * den = num * ShearDen * h
    /\ (pure.fn = "applyGeometricTransforms" /\ pure.applied = 1) =>
          ((pure.args[1] # 0 \/ pure.args[2] # 0) =>
              \E k \in 1..Len(pure.out) : pure.out[k] = "fillScale")

\* the images a fitting request is to carry, in order: the model image if
\* present, the populated clothing items, the valid reference images
C21_Images(modelBase64, selectedItems, refImages) ==
    LET clothing == SelectSeq(selectedItems.entries, IsClothingEntry)
        refs == SelectSeq(refImages, LAMBDA r : r.kind = "string" /\ r.str # "")
    IN  (IF Truthy(modelBase64) THEN <<modelBase64.str>> ELSE <<>>)
        \o [i \in 1..Len(clothing) |-> Get(clothing[i].val, "imageUrl").str]
        \o [i \in 1..Len(refs) |-> refs[i].str]

\* the parts are the images in order and then the text, the lines of the
\* input mapping describe the parts they number, and the clothing indices
\* are the positions of the clothing parts
C21_MappingConsistent ==
    (pure.fn = "generateFittingImage" /\ pure.applied = 1) =>
        LET parts == pure.parts
            n == Len(parts)
            text == parts[n].text
            images == C21_Images(pure.request[1], pure.request[2], pure.request[3])
            m == IF Truthy(pure.request[1]) THEN 1 ELSE 0
            clothing == SelectSeq(pure.request[2].entries, IsClothingEntry)
        IN  /\ n = Len(images) + 1
            /\ DOMAIN parts[n] = {"text"}
            /\ \A i \in 1..(n - 1) : parts[i] = ImagePart(images[i])
            /\ \A k \in 1..Len(text.inputMapping) :
                  LET line == text.inputMapping[k]
                  IN  line.image # 0 =>
                        /\ line.image \in 1..(n - 1)
                        /\ parts[line.image] = ImagePart(line.of)
                        /\ line.role = "MASTER IDENTITY SOURCE (FACE)" <=> (m = 1 /\ line.image = 1)
                        /\ line.role = "CLOTHING ITEM" <=> line.image \in (m + 1)..(m + Len(clothing))
            /\ text.clothingImages = [i \in 1..Len(clothing) |-> m + i]

\* the image whose face the rules of the text tell to match is not one the
\* input mapping calls a clothing item
C21_FaceReferenceConsistent ==
    (pure.fn = "generateFittingImage" /\ pure.applied = 1) =>
        LET text == pure.parts[Len(pure.parts)].text
        IN  \A k \in 1..Len(text.inputMapping) :
                text.inputMapping[k].image = text.faceImage =>
                    text.inputMapping[k].role # "CLOTHING ITEM"

\* C21: in a fitting request the model image, if present, is part 1, then
\* come the populated clothing items that are no configuration, in iteration
\* order, then the valid reference images, and the instruction text is the
\* last part; every "IMAGE n" of the text describes the n-th image part,
\* and the clothing indices the text lists are the positions of the
\* clothing parts.
C21_PositionalConsistency ==
    C21_MappingConsistent /\ C21_FaceReferenceConsistent

\* the entries of o under key k
C22_EntriesUnder(o, k) ==
    {i \in 1..Len(o.entries) : o.entries[i].key = k}

\* C22: after handleStudioFile(cat, img) the items of the current view have
\* exactly one entry under key cat, its imageUrl is img, the entry of every
\* other category is unchanged, and generateStudio then passes that item to
\* generateFittingImage in selectedItems.
C22_CategoryIsKey ==
    [][\A cat \in UploadCategories, img \in Uploads, t \in 0..MaxClock :
          handleStudioFile(cat, img, t) =>
              LET before == Get(views[currentView], "items")
                  after == Get(views'[currentView'], "items")
                  passed == FittingArguments(currentView', views').selectedItems
              IN  /\ Cardinality(C22_EntriesUnder(after, cat)) = 1
                  /\ Get(Get(after, cat), "imageUrl") = Str(img)
                  /\ \A c \in UploadCategories \ {cat} : Get(after, c) = Get(before, c)
                  /\ Get(Get(passed, cat), "imageUrl") = Str(img)]_vars

\* C23: after handleStudioFile with a model category the FRONT and the BACK
\* view hold the same modelImage, the uploaded image, and the two are equal
\* in every reachable state.
C23_SharedModelImage ==
    /\ [][\A cat \in UploadCategories \cap ModelCategories, img \in Uploads, t \in 0..MaxClock :
            handleStudioFile(cat, img, t) =>
                \A v \in Views : Get(views'[v], "modelImage") = Str(img)]_vars
    /\ [](Get(views["FRONT"], "modelImage") = Get(views["BACK"], "modelImage"))

====
